---- MODULE Spec2Model ----
(***************************************************************************)
(* Request-handling pipeline of go-boilerplate: the Echo middleware chain  *)
(* set up by router.NewRouter, the typed dispatch of handler/base.go, the  *)
(* error taxonomy of errs and sqlerr, validation.BindAndValidate and the   *)
(* health handler.  The repository's description of these packages is the  *)
(* README (src/unnamed/part_000); every definition names the lines of it   *)
(* that it models.                                                         *)
(***************************************************************************)
EXTENDS Integers, Sequences, FiniteSets, TLC

(***************************************************************************)
(* Bounds of the model.                                                    *)
(***************************************************************************)
\* concurrent request slots (goroutines serving requests at the same time)
NumSlots == 2
\* requests beyond the limit that one window may still receive
MaxOver == 2
\* rules declared on a request payload
MaxRules == 3

(***************************************************************************)
(* errs: HTTPError and its constructors (internal/errs/type.go, http.go).  *)
(***************************************************************************)
StatusOK == 200
StatusNoContent == 204
StatusBadRequest == 400
StatusUnauthorized == 401
StatusForbidden == 403
StatusNotFound == 404
StatusTooManyRequests == 429
StatusInternalServerError == 500
StatusServiceUnavailable == 503

\* the fixed message of every 500
GenericMessage == "Internal Server Error"

NoAction == "none"
NoFieldErrors == << >>

HTTPError(code, message, status, override, errors, action) ==
  [kind |-> "http", Code |-> code, Message |-> message, Status |-> status,
   Override |-> override, Errors |-> errors, Action |-> action]

NewUnauthorizedError(message, override) ==
  HTTPError("UNAUTHORIZED", message, StatusUnauthorized, override, NoFieldErrors, NoAction)

NewForbiddenError(message, override) ==
  HTTPError("FORBIDDEN", message, StatusForbidden, override, NoFieldErrors, NoAction)

NewBadRequestError(message, override, errors, action) ==
  HTTPError("BAD_REQUEST", message, StatusBadRequest, override, errors, action)

NewNotFoundError(message, override) ==
  HTTPError("NOT_FOUND", message, StatusNotFound, override, NoFieldErrors, NoAction)

NewInternalServerError ==
  HTTPError("INTERNAL_SERVER_ERROR", GenericMessage, StatusInternalServerError,
            FALSE, NoFieldErrors, NoAction)

IsHTTPError(err) == err.kind = "http"

(***************************************************************************)
(* sqlerr: Code, MapCode, ConvertPgError (internal/sqlerr/error.go).       *)
(***************************************************************************)
Other == "other"
NotNullViolation == "not_null_violation"
ForeignKeyViolation == "foreign_key_violation"
UniqueViolation == "unique_violation"
CheckViolation == "check_violation"

\* the PostgreSQL codes the description of MapCode lists
ListedPgCodes ==
  [c \in {"23502", "23503", "23505"} |->
     CASE c = "23502" -> NotNullViolation
       [] c = "23503" -> ForeignKeyViolation
       [] c = "23505" -> UniqueViolation]

\* the entry of the table for CheckViolation, which the description elides
ElidedPgCodes == [c \in {"23514"} |-> CheckViolation]

\* a table without the entry for 23505
MapCodeUniqueAsOther(code) ==
  IF code \in DOMAIN ListedPgCodes \ {"23505"} THEN ListedPgCodes[code]
  ELSE IF code \in DOMAIN ElidedPgCodes THEN ElidedPgCodes[code]
  ELSE Other

MapCode(code) ==
  IF code \in DOMAIN ListedPgCodes THEN ListedPgCodes[code]
  ELSE IF code \in DOMAIN ElidedPgCodes THEN ElidedPgCodes[code]
  ELSE Other

\* a pgconn.PgError: native code, the column it names (if any), its raw text
PgError(code, column, message) ==
  [kind |-> "pg", PgCode |-> code, ColumnName |-> column, Message |-> message]

\* pgx.ErrNoRows / sql.ErrNoRows
ErrNoRows == [kind |-> "norows", Message |-> "no rows in result set"]

\* any other error value
RawError(message) == [kind |-> "raw", Message |-> message]

ConvertPgError(pgErr) ==
  [Code |-> MapCode(pgErr.PgCode), Message |-> pgErr.Message,
   ColumnName |-> pgErr.ColumnName]

(***************************************************************************)
(* sqlerr.HandleError (internal/sqlerr/handler.go).                        *)
(***************************************************************************)
\* the user-facing message of a constraint violation
UserMessage(code) ==
  CASE code = NotNullViolation -> "A required field is missing"
    [] code = ForeignKeyViolation -> "A referenced record does not exist"
    [] code = UniqueViolation -> "The record already exists"
    [] code = CheckViolation -> "A value violates a constraint"
    [] OTHER -> GenericMessage

FieldError(field, message) == [field |-> field, error |-> message]

HandlePgError(sqlErr) ==
  CASE sqlErr.Code = NotNullViolation ->
         NewBadRequestError(UserMessage(sqlErr.Code), TRUE,
            IF sqlErr.ColumnName = "" THEN NoFieldErrors
            ELSE << FieldError(sqlErr.ColumnName, "is required") >>,
            NoAction)
    [] sqlErr.Code \in {ForeignKeyViolation, UniqueViolation, CheckViolation} ->
         NewBadRequestError(UserMessage(sqlErr.Code), TRUE, NoFieldErrors, NoAction)
    [] OTHER -> NewInternalServerError

\* a translation that builds a new error from an HTTPError's code and message
HandleErrorRebuilds(err) ==
  CASE IsHTTPError(err) ->
         HTTPError(err.Code, err.Message, err.Status, FALSE, NoFieldErrors, NoAction)
    [] err.kind = "pg" -> HandlePgError(ConvertPgError(err))
    [] err.kind = "norows" -> NewNotFoundError("Resource not found", FALSE)
    [] OTHER -> NewInternalServerError

HandleError(err) ==
  CASE IsHTTPError(err) -> err
    [] err.kind = "pg" -> HandlePgError(ConvertPgError(err))
    [] err.kind = "norows" -> NewNotFoundError("Resource not found", FALSE)
    [] OTHER -> NewInternalServerError

(***************************************************************************)
(* validation: BindAndValidate, validateStruct, extractValidationErrors    *)
(* (internal/validation/utils.go).                                         *)
(***************************************************************************)
\* the validator tags extractValidationErrors knows
Tags == << "required", "min", "max", "oneof", "email", "e164", "uuid", "uuidList", "dive" >>

\* rule i of a payload: one tag on one field, fields in declaration order
RuleTag(i) == Tags[((i - 1) % Len(Tags)) + 1]
FieldNames == << "email", "name", "age", "role", "contact", "phone", "id", "ids", "items" >>
RuleField(i) == FieldNames[((i - 1) % Len(FieldNames)) + 1]

TagMessage(tag) ==
  CASE tag = "required" -> "is required"
    [] tag = "min" -> "is below the minimum"
    [] tag = "max" -> "is above the maximum"
    [] tag = "oneof" -> "must be one of the allowed values"
    [] tag = "email" -> "must be a valid email address"
    [] tag = "e164" -> "must be a valid phone number"
    [] tag = "uuid" -> "must be a valid UUID"
    [] tag = "uuidList" -> "must be a list of valid UUIDs"
    [] OTHER -> "is invalid"

BindMessage == "invalid request payload"
ValidationMessage == "Validation failed"

\* a raw request payload: whether c.Bind succeeds, the declared rules it breaks,
\* and the errors of its custom Validate hook (reported when no tag rule fails)
Payloads ==
  [bindOK : BOOLEAN, failing : SUBSET (1 .. MaxRules), custom : {<< >>}]
  \cup [bindOK : BOOLEAN, failing : {{}},
        custom : {<< FieldError("password", "does not match") >>}]

ValidPayload == [bindOK |-> TRUE, failing |-> {}, custom |-> << >>]

NoValidationError == [kind |-> "nil"]

\* validator.ValidationErrors: one FieldError per failing rule, declaration order
ValidationErrors(p) ==
  SelectSeq([i \in 1 .. MaxRules |-> i], LAMBDA i : i \in p.failing)

validateStruct(p) ==
  IF p.failing # {} THEN [kind |-> "validator", errs |-> ValidationErrors(p)]
  ELSE IF p.custom # << >> THEN [kind |-> "custom", errs |-> p.custom]
  ELSE NoValidationError

extractValidationErrors(ve) ==
  IF ve.kind = "validator"
  THEN [k \in 1 .. Len(ve.errs) |->
          FieldError(RuleField(ve.errs[k]), TagMessage(RuleTag(ve.errs[k])))]
  ELSE ve.errs

NoErr == [kind |-> "nil"]

\* validation that keeps only the first failing rule and tags the error anew
BindAndValidateFirstOnly(p) ==
  IF ~p.bindOK
  THEN [err |-> NewBadRequestError(BindMessage, FALSE,
                   << FieldError(RuleField(1), BindMessage) >>, NoAction),
        validated |-> TRUE]
  ELSE LET ve == validateStruct(p) IN
       [err |-> IF ve = NoValidationError THEN NoErr
                ELSE HTTPError("VALIDATION_ERROR", ValidationMessage, StatusBadRequest,
                        TRUE, SubSeq(extractValidationErrors(ve), 1, 1), NoAction),
        validated |-> TRUE]

\* the error BindAndValidate returns and whether validateStruct was called
BindAndValidate(p) ==
  IF ~p.bindOK
  THEN [err |-> NewBadRequestError(BindMessage, FALSE, NoFieldErrors, NoAction),
        validated |-> FALSE]
  ELSE LET ve == validateStruct(p) IN
       [err |-> IF ve = NoValidationError THEN NoErr
                ELSE NewBadRequestError(ValidationMessage, TRUE,
                        extractValidationErrors(ve), NoAction),
        validated |-> TRUE]

(***************************************************************************)
(* middleware.GlobalErrorHandler (internal/middleware/global.go).          *)
(***************************************************************************)
\* an echo.HTTPError, as the rate limiter's DenyHandler returns
EchoError(status, message) == [kind |-> "echo", Status |-> status, Message |-> message]

\* the taxonomy code of an echo error's status
EchoErrorCode(status) ==
  CASE status = StatusTooManyRequests -> "RATE_LIMITED"
    [] status = StatusNotFound -> "NOT_FOUND"
    [] OTHER -> "INTERNAL_SERVER_ERROR"

\* the JSON body {code, message, errors, action} with the status it is sent with
ErrorResponse(status, code, message, errors, action) ==
  [status |-> status,
   body |-> [kind |-> "error", code |-> code, message |-> message,
             errors |-> errors, action |-> action]]

\* a formatter that skips the translation of errors that are no HTTPError
GlobalErrorHandlerRaw(err) ==
  IF err.kind = "echo"
  THEN ErrorResponse(err.Status, EchoErrorCode(err.Status), err.Message,
                     NoFieldErrors, NoAction)
  ELSE IF IsHTTPError(err)
  THEN ErrorResponse(err.Status, err.Code, err.Message, err.Errors, err.Action)
  ELSE ErrorResponse(StatusInternalServerError, "INTERNAL_SERVER_ERROR", err.Message,
                     NoFieldErrors, NoAction)

GlobalErrorHandler(err) ==
  IF err.kind = "echo"
  THEN ErrorResponse(err.Status, EchoErrorCode(err.Status), err.Message,
                     NoFieldErrors, NoAction)
  ELSE LET h == IF IsHTTPError(err) THEN err ELSE HandleError(err) IN
       ErrorResponse(h.Status, h.Code, h.Message, h.Errors, h.Action)

(***************************************************************************)
(* Requests, routes and the outcomes of the collaborators.                 *)
(***************************************************************************)
Slots == 1 .. NumSlots

\* the slot whose request runs the whole chain in Spec
ChainSlots == {1}

\* the slots whose requests run the whole chain concurrently in SpecCtx
CtxSlots == {1, 2}

Clients == {"10.0.0.1", "10.0.0.2"}
ChainClients == {"10.0.0.1"}

\* routes registered with Handle, HandleNoContent and HandleFile, with or
\* without middlewares.Auth.RequireAuth
Routes ==
  { [path |-> "/api/v1/ping", requiresAuth |-> FALSE, envelope |-> "json"],
    [path |-> "/api/v1/items", requiresAuth |-> TRUE, envelope |-> "json"],
    [path |-> "/api/v1/items/:id", requiresAuth |-> TRUE, envelope |-> "nocontent"],
    [path |-> "/api/v1/files/:id", requiresAuth |-> FALSE, envelope |-> "file"] }

NoRoute == [path |-> "", requiresAuth |-> FALSE, envelope |-> "json"]

\* what a request carries: the client's identity, the route it matches, the
\* X-Request-ID header it sent ("" for none), whether it is a CORS preflight,
\* and how its bearer credential fares with the auth provider
Requests(clients) ==
  [client : clients, route : Routes, inboundID : {"", "client-req-1"},
   preflight : BOOLEAN, credential : {"none", "invalid", "valid"}]

\* the requests of SpecRate, which follows them through the limiter only:
\* plain requests, each client calling an endpoint of its own
RateRequests(clients) ==
  { q \in Requests(clients) :
      /\ q.inboundID = ""
      /\ ~q.preflight
      /\ q.credential = "none"
      /\ q.route.envelope = "json"
      /\ q.route.requiresAuth <=> q.client # "10.0.0.1" }

\* the requests of SpecCtx, which runs the chain for concurrent requests of
\* one client: with and without an inbound X-Request-ID, with a credential
\* the provider accepts or rejects, on an open and on a protected route
CtxRequests ==
  { q \in Requests(ChainClients) :
      /\ ~q.preflight
      /\ q.credential \in {"invalid", "valid"}
      /\ q.route.envelope = "json" }

NoReq == [client |-> "", route |-> NoRoute, inboundID |-> "", preflight |-> FALSE,
          credential |-> "none"]

NativeCodes == {"23502", "23503", "23505", "23514", "42601", "08006"}

RawCauses == {"dial tcp 10.0.0.5:5432: connection refused", "unexpected EOF",
              "ERROR: relation violates constraint (SQLSTATE)",
              "no rows in result set", "runtime error: nil pointer dereference"}

PanicText == "runtime error: nil pointer dereference"

\* the errors business logic returns
HandlerErrors ==
  { NewBadRequestError("name is taken", FALSE, NoFieldErrors, NoAction),
    NewBadRequestError("profile incomplete", TRUE,
                       << FieldError("name", "is required") >>, "redirect"),
    NewUnauthorizedError("session expired", FALSE),
    NewForbiddenError("not allowed", FALSE),
    NewNotFoundError("item not found", FALSE),
    NewInternalServerError,
    ErrNoRows,
    RawError("dial tcp 10.0.0.5:5432: connection refused"),
    RawError("unexpected EOF") }
  \cup { PgError(c, col, "ERROR: relation violates constraint (SQLSTATE)") :
           c \in NativeCodes, col \in {"", "email"} }

HandlerOutcomes == { [kind |-> "ok"], [kind |-> "panic"] } \cup HandlerErrors

(***************************************************************************)
(* State.                                                                  *)
(***************************************************************************)
VARIABLES
  nrApp,      \* whether a New Relic application is configured
  pc,         \* per slot: the stage its request is at
  req,        \* per slot: the request
  ctx,        \* per slot: the RequestContext
  ctxWrites,  \* per slot: how often each RequestContext field was set
  hdr,        \* per slot: the response headers set so far
  resp,       \* per slot: the responses written, in order
  err,        \* per slot: the error returned up the chain
  ending,     \* per slot: which stage ended the request
  trail,      \* per slot: the stages entered, in order
  panicAt,    \* per slot: the stage that panicked
  disp,       \* per slot: what typed dispatch did
  obs,        \* per slot: what reached the observability sink and the log
  local,      \* per slot: the counter value the limiter read
  mu,         \* the limiter's lock: the slot holding it, 0 when free
  count,      \* the limiter's counter of each client in the current window
  window,     \* per client: requests admitted and denied in the current window
  alive,      \* whether the process is running
  panicSeen,  \* whether some request panicked
  health      \* the health handler: dependencies and its last response

chainVars == << pc, req, ctx, ctxWrites, hdr, resp, err, ending, trail, panicAt,
                disp, obs >>
limiterVars == << local, mu, count, window >>
vars == << nrApp, chainVars, limiterVars, alive, panicSeen, health >>

CtxFields == {"requestID", "userID", "userRole", "permissions", "traceID", "spanID",
              "logger"}

NoLogger == [set |-> FALSE, request_id |-> "", trace_id |-> "", span_id |-> ""]

EmptyCtx == [requestID |-> "", userID |-> "", userRole |-> "", permissions |-> "",
             traceID |-> "", spanID |-> "", logger |-> NoLogger]

NoHeaders == [requestID |-> "", secure |-> FALSE]

NoDispatch == [entered |-> FALSE, payload |-> ValidPayload, validated |-> FALSE,
               handlerRan |-> FALSE, outcome |-> [kind |-> "none"]]

NoObs == [records |-> << >>, logs |-> {}, hit |-> "", noticed |-> {}]

NoWindow == [admitted |-> 0, denied |-> 0]

NoHealthResponse ==
  [status |-> 0, body |-> [status |-> "", environment |-> "", checks |-> << >>],
   saw |-> [dbUp |-> TRUE, redisUp |-> TRUE]]

\* the dependencies of the health handler, the last response of GET /status
\* and the checks for which a HealthCheckError event was recorded
HealthStates ==
  [dbUp : BOOLEAN, redisUp : BOOLEAN, redisConfigured : BOOLEAN,
   environment : {"local", "production"}, checked : {FALSE},
   response : {NoHealthResponse}, events : {{}}]

HealthInit ==
  [dbUp |-> TRUE, redisUp |-> TRUE, redisConfigured |-> TRUE,
   environment |-> "local", checked |-> FALSE, response |-> NoHealthResponse,
   events |-> {}]

SlotsIdle ==
  /\ pc = [r \in Slots |-> "idle"]
  /\ req = [r \in Slots |-> NoReq]
  /\ ctx = [r \in Slots |-> EmptyCtx]
  /\ ctxWrites = [r \in Slots |-> [f \in CtxFields |-> 0]]
  /\ hdr = [r \in Slots |-> NoHeaders]
  /\ resp = [r \in Slots |-> << >>]
  /\ err = [r \in Slots |-> NoErr]
  /\ ending = [r \in Slots |-> "none"]
  /\ trail = [r \in Slots |-> << >>]
  /\ panicAt = [r \in Slots |-> "none"]
  /\ disp = [r \in Slots |-> NoDispatch]
  /\ obs = [r \in Slots |-> NoObs]
  /\ local = [r \in Slots |-> 0]

Init ==
  /\ nrApp \in BOOLEAN
  /\ SlotsIdle
  /\ mu = 0
  /\ count = [c \in Clients |-> 0]
  /\ window = [c \in Clients |-> NoWindow]
  /\ alive = TRUE
  /\ panicSeen = FALSE
  /\ health = HealthInit

(***************************************************************************)
(* Helpers of the chain.                                                   *)
(***************************************************************************)
\* one context that serves every request
ContextOfShared(r) == 1

\* the context a request's middleware sets and gets: the request's own
ContextOf(r) == r

Entered(r, stage) == \E i \in DOMAIN trail[r] : trail[r][i] = stage

Enter(r, stage) == trail' = [trail EXCEPT ![r] = Append(@, stage)]

\* a response as it leaves the server: status, body and the headers set so far
Sent(r, rsp) == [status |-> rsp.status, body |-> rsp.body, headers |-> hdr[r]]

\* requests of client c that are inside the limiter
InLimiter(c) ==
  Cardinality({ r \in Slots : pc[r] \in {"rate_limiter", "rate_commit"}
                              /\ req[r].client = c })

(***************************************************************************)
(* router.NewRouter: the global middleware, in the order it is applied.    *)
(* A route's own middleware (RequireAuth) and its handler run after the    *)
(* last of them.                                                           *)
(***************************************************************************)
\* a router that applies RequestID ahead of the rate limiter and CORS
NewRouterRequestIDFirst ==
  << "request_id", "rate_limiter", "cors", "secure", "tracing", "enhance_tracing",
     "context", "request_logger", "recover" >>

NewRouter ==
  << "rate_limiter", "cors", "secure", "request_id", "tracing", "enhance_tracing",
     "context", "request_logger", "recover" >>

Position(stage) == CHOOSE i \in DOMAIN NewRouter : NewRouter[i] = stage

\* where the request goes when `stage` calls next
Forward(r, stage) ==
  IF Position(stage) < Len(NewRouter) THEN NewRouter[Position(stage) + 1]
  ELSE IF req[r].route.requiresAuth THEN "auth" ELSE "handler"

(***************************************************************************)
(* A request arrives on a free slot (a goroutine starts serving it).       *)
(***************************************************************************)
RateLimit == 20

Arrive(r, requests) ==
  /\ alive
  /\ pc[r] = "idle"
  /\ \E q \in requests :
       /\ count[q.client] + InLimiter(q.client) < RateLimit + MaxOver
       /\ req' = [req EXCEPT ![r] = q]
  /\ pc' = [pc EXCEPT ![r] = Head(NewRouter)]
  /\ UNCHANGED << nrApp, ctx, ctxWrites, hdr, resp, err, ending, trail, panicAt, disp,
                  obs, limiterVars, alive, panicSeen, health >>

(***************************************************************************)
(* 1. Rate limiter: 20 requests per second and client, memory store; the   *)
(* DenyHandler returns 429 and records the hit with the endpoint.          *)
(***************************************************************************)
\* a store whose counter is read and written without its lock
CanLockAlways(r) == TRUE

CanLock(r) == mu = 0

\* take the store's lock and read the client's counter
RateAcquire(r) ==
  /\ pc[r] = "rate_limiter"
  /\ CanLock(r)
  /\ mu' = r
  /\ local' = [local EXCEPT ![r] = count[req[r].client]]
  /\ pc' = [pc EXCEPT ![r] = "rate_commit"]
  /\ Enter(r, "rate_limiter")
  /\ UNCHANGED << nrApp, req, ctx, ctxWrites, hdr, resp, err, ending, panicAt, disp,
                  obs, count, window, alive, panicSeen, health >>

\* write the counter back, release the lock, and admit or deny
RateCommit(r) ==
  /\ pc[r] = "rate_commit"
  /\ count' = [count EXCEPT ![req[r].client] = local[r] + 1]
  /\ mu' = IF mu = r THEN 0 ELSE mu
  /\ IF local[r] < RateLimit
     THEN /\ window' = [window EXCEPT ![req[r].client].admitted = @ + 1]
          /\ pc' = [pc EXCEPT ![r] = Forward(r, "rate_limiter")]
          /\ UNCHANGED << err, ending, obs >>
     ELSE /\ window' = [window EXCEPT ![req[r].client].denied = @ + 1]
          /\ obs' = [obs EXCEPT ![r].hit = req[r].route.path]
          /\ err' = [err EXCEPT ![r] = EchoError(StatusTooManyRequests, "Rate limit exceeded")]
          /\ ending' = [ending EXCEPT ![r] = "rate_limited"]
          /\ pc' = [pc EXCEPT ![r] = "returned"]
  /\ local' = [local EXCEPT ![r] = 0]
  /\ UNCHANGED << nrApp, req, ctx, ctxWrites, hdr, resp, trail, panicAt, disp,
                  alive, panicSeen, health >>

\* the next one-second window begins
Tick ==
  /\ mu = 0
  /\ \E c \in Clients : count[c] > 0
  /\ count' = [c \in Clients |-> 0]
  /\ window' = [c \in Clients |-> NoWindow]
  /\ UNCHANGED << nrApp, chainVars, local, mu, alive, panicSeen, health >>

(***************************************************************************)
(* 2.-8. CORS, Secure, RequestID, NewRelic, EnhanceTracing,                *)
(* ContextEnhancer, RequestLogger.                                         *)
(***************************************************************************)
CORS(r) ==
  /\ pc[r] = "cors"
  /\ Enter(r, "cors")
  /\ IF req[r].preflight
     THEN /\ resp' = [resp EXCEPT ![r] =
                        Append(@, Sent(r, [status |-> StatusNoContent,
                                           body |-> [kind |-> "empty"]]))]
          /\ ending' = [ending EXCEPT ![r] = "preflight"]
          /\ pc' = [pc EXCEPT ![r] = "done"]
     ELSE /\ pc' = [pc EXCEPT ![r] = Forward(r, "cors")]
          /\ UNCHANGED << resp, ending >>
  /\ UNCHANGED << nrApp, req, ctx, ctxWrites, hdr, err, panicAt, disp, obs,
                  limiterVars, alive, panicSeen, health >>

Secure(r) ==
  /\ pc[r] = "secure"
  /\ Enter(r, "secure")
  /\ hdr' = [hdr EXCEPT ![r].secure = TRUE]
  /\ pc' = [pc EXCEPT ![r] = Forward(r, "secure")]
  /\ UNCHANGED << nrApp, req, ctx, ctxWrites, resp, err, ending, panicAt, disp, obs,
                  limiterVars, alive, panicSeen, health >>

NewUUID == "generated-uuid"

\* a middleware that generates nothing when the header is missing
RequestIDAsSent(inbound) == inbound

\* the inbound X-Request-ID, or a new uuid when the client sent none
RequestIDValue(inbound) == IF inbound = "" THEN NewUUID ELSE inbound

RequestID(r) ==
  /\ pc[r] = "request_id"
  /\ Enter(r, "request_id")
  /\ LET id == RequestIDValue(req[r].inboundID) IN
       /\ ctx' = [ctx EXCEPT ![ContextOf(r)].requestID = id]
       /\ hdr' = [hdr EXCEPT ![r].requestID = id]
  /\ ctxWrites' = [ctxWrites EXCEPT ![ContextOf(r)].requestID = @ + 1]
  /\ pc' = [pc EXCEPT ![r] = Forward(r, "request_id")]
  /\ UNCHANGED << nrApp, req, resp, err, ending, panicAt, disp, obs,
                  limiterVars, alive, panicSeen, health >>

\* nrecho: starts the request's transaction when an application is configured
NewRelic(r) ==
  /\ pc[r] = "tracing"
  /\ Enter(r, "tracing")
  /\ IF nrApp
     THEN /\ ctx' = [ctx EXCEPT ![ContextOf(r)].traceID = "trace-id",
                                ![ContextOf(r)].spanID = "span-id"]
          /\ ctxWrites' = [ctxWrites EXCEPT ![ContextOf(r)].traceID = @ + 1,
                                            ![ContextOf(r)].spanID = @ + 1]
     ELSE UNCHANGED << ctx, ctxWrites >>
  /\ pc' = [pc EXCEPT ![r] = Forward(r, "tracing")]
  /\ UNCHANGED << nrApp, req, hdr, resp, err, ending, panicAt, disp, obs,
                  limiterVars, alive, panicSeen, health >>

\* adds attributes to the transaction; it sets no field of the context
EnhanceTracing(r) ==
  /\ pc[r] = "enhance_tracing"
  /\ Enter(r, "enhance_tracing")
  /\ pc' = [pc EXCEPT ![r] = Forward(r, "enhance_tracing")]
  /\ UNCHANGED << nrApp, req, ctx, ctxWrites, hdr, resp, err, ending, panicAt, disp,
                  obs, limiterVars, alive, panicSeen, health >>

EnhanceContext(r) ==
  /\ pc[r] = "context"
  /\ Enter(r, "context")
  /\ LET c == ctx[ContextOf(r)] IN
       ctx' = [ctx EXCEPT ![ContextOf(r)].logger =
                 [set |-> TRUE, request_id |-> c.requestID,
                  trace_id |-> c.traceID, span_id |-> c.spanID]]
  /\ ctxWrites' = [ctxWrites EXCEPT ![ContextOf(r)].logger = @ + 1]
  /\ pc' = [pc EXCEPT ![r] = Forward(r, "context")]
  /\ UNCHANGED << nrApp, req, hdr, resp, err, ending, panicAt, disp, obs,
                  limiterVars, alive, panicSeen, health >>

\* on the way in; the log line is written when the request completes
RequestLogger(r) ==
  /\ pc[r] = "request_logger"
  /\ Enter(r, "request_logger")
  /\ pc' = [pc EXCEPT ![r] = Forward(r, "request_logger")]
  /\ UNCHANGED << nrApp, req, ctx, ctxWrites, hdr, resp, err, ending, panicAt, disp,
                  obs, limiterVars, alive, panicSeen, health >>

(***************************************************************************)
(* 9. Recover, the last middleware of the chain: it wraps what runs after  *)
(* it, the route's own middleware and its handler.                         *)
(***************************************************************************)
\* the stages whose panics pass through Recover
RecoverScope == {"auth", "handler"}

Recover(r) ==
  /\ pc[r] = "recover"
  /\ Enter(r, "recover")
  /\ pc' = [pc EXCEPT ![r] = Forward(r, "recover")]
  /\ UNCHANGED << nrApp, req, ctx, ctxWrites, hdr, resp, err, ending, panicAt, disp,
                  obs, limiterVars, alive, panicSeen, health >>

(***************************************************************************)
(* middlewares.Auth.RequireAuth, on the routes that ask for it.            *)
(***************************************************************************)
\* a check that takes any credential that is present
AuthSucceedsIfPresent(credential) == credential # "none"

\* Clerk's WithHeaderAuthorization accepts the bearer credential
AuthSucceeds(credential) == credential = "valid"

RequireAuth(r) ==
  /\ pc[r] = "auth"
  /\ Enter(r, "auth")
  /\ IF AuthSucceeds(req[r].credential)
     THEN /\ ctx' = [ctx EXCEPT ![ContextOf(r)].userID = "user_1",
                                ![ContextOf(r)].userRole = "admin",
                                ![ContextOf(r)].permissions = "items:write"]
          /\ ctxWrites' = [ctxWrites EXCEPT ![ContextOf(r)].userID = @ + 1,
                                            ![ContextOf(r)].userRole = @ + 1,
                                            ![ContextOf(r)].permissions = @ + 1]
          /\ pc' = [pc EXCEPT ![r] = "handler"]
          /\ UNCHANGED << resp, ending >>
     ELSE /\ LET h == NewUnauthorizedError("Unauthorized", FALSE) IN
               resp' = [resp EXCEPT ![r] =
                          Append(@, Sent(r, ErrorResponse(h.Status, h.Code, h.Message,
                                                          h.Errors, h.Action)))]
          /\ ending' = [ending EXCEPT ![r] = "unauthorized"]
          /\ pc' = [pc EXCEPT ![r] = "returned"]
          /\ UNCHANGED << ctx, ctxWrites >>
  /\ UNCHANGED << nrApp, req, hdr, err, panicAt, disp, obs, limiterVars, alive,
                  panicSeen, health >>

(***************************************************************************)
(* handler.handleRequest (internal/handler/base.go).                       *)
(***************************************************************************)
\* what handleRequest hands to the transaction's NoticeError
Wrap(e) == [class |-> e.kind, message |-> e.Message]

\* the error handleRequest returns: the error itself, not its wrapping
ReturnedError(e) == e

\* a dispatch whose early return on a bind or validation failure records nothing
PhaseRecordsNoFailure(bindFailed, outcomeKind) ==
  IF bindFailed THEN << >>
  ELSE IF outcomeKind = "panic" THEN << << "validation", "success" >> >>
  ELSE IF outcomeKind = "ok"
  THEN << << "validation", "success" >>, << "handler", "success" >> >>
  ELSE << << "validation", "success" >>, << "handler", "error" >> >>

\* the phases a branch of handleRequest records, with their status
PhaseRecords(bindFailed, outcomeKind) ==
  IF bindFailed THEN << << "validation", "failed" >> >>
  ELSE IF outcomeKind = "panic" THEN << << "validation", "success" >> >>
  ELSE IF outcomeKind = "ok"
  THEN << << "validation", "success" >>, << "handler", "success" >> >>
  ELSE << << "validation", "success" >>, << "handler", "error" >> >>

\* the records of a branch as they reach the transaction; without a New Relic
\* application there is no transaction to record on
TxnRecords(operation, bindFailed, outcomeKind) ==
  IF nrApp
  THEN LET ph == PhaseRecords(bindFailed, outcomeKind) IN
       [k \in 1 .. Len(ph) |->
          [operationName |-> operation, phase |-> ph[k][1], status |-> ph[k][2]]]
  ELSE << >>

\* JSONResponseHandler, NoContentResponseHandler, FileResponseHandler
ResponseHandlerHandle(envelope) ==
  CASE envelope = "json" -> [status |-> StatusOK, body |-> [kind |-> "json"]]
    [] envelope = "nocontent" -> [status |-> StatusNoContent, body |-> [kind |-> "empty"]]
    [] envelope = "file" -> [status |-> StatusOK, body |-> [kind |-> "file"]]

HandleRequest(r, payloads, outcomes) ==
  /\ pc[r] = "handler"
  /\ Enter(r, "handler")
  /\ \E p \in payloads, o \in outcomes :
       LET bv == BindAndValidate(p)
           failed == bv.err.kind # "nil"
           recs == TxnRecords(req[r].route.path, failed, o.kind)
       IN
       /\ failed => o.kind = "ok"
       /\ disp' = [disp EXCEPT ![r] =
                     [entered |-> TRUE, payload |-> p, validated |-> bv.validated,
                      handlerRan |-> ~failed,
                      outcome |-> IF failed THEN [kind |-> "none"] ELSE o]]
       /\ IF failed
          THEN /\ err' = [err EXCEPT ![r] = ReturnedError(bv.err)]
               /\ obs' = [obs EXCEPT ![r].records = @ \o recs,
                                     ![r].noticed = IF nrApp THEN @ \cup {Wrap(bv.err)} ELSE @]
               /\ ending' = [ending EXCEPT ![r] = "bind_error"]
               /\ pc' = [pc EXCEPT ![r] = "returned"]
               /\ UNCHANGED << resp, panicAt >>
          ELSE IF o.kind = "ok"
          THEN /\ resp' = [resp EXCEPT ![r] =
                             Append(@, Sent(r, ResponseHandlerHandle(req[r].route.envelope)))]
               /\ obs' = [obs EXCEPT ![r].records = @ \o recs]
               /\ ending' = [ending EXCEPT ![r] = "handler_success"]
               /\ pc' = [pc EXCEPT ![r] = "returned"]
               /\ UNCHANGED << err, panicAt >>
          ELSE IF o.kind = "panic"
          THEN /\ obs' = [obs EXCEPT ![r].records = @ \o recs]
               /\ panicAt' = [panicAt EXCEPT ![r] = "handler"]
               /\ pc' = [pc EXCEPT ![r] = "panicked"]
               /\ UNCHANGED << resp, err, ending >>
          ELSE /\ err' = [err EXCEPT ![r] = ReturnedError(o)]
               /\ obs' = [obs EXCEPT ![r].records = @ \o recs,
                                     ![r].noticed = IF nrApp THEN @ \cup {Wrap(o)} ELSE @]
               /\ ending' = [ending EXCEPT ![r] = "handler_error"]
               /\ pc' = [pc EXCEPT ![r] = "returned"]
               /\ UNCHANGED << resp, panicAt >>
  /\ UNCHANGED << nrApp, req, ctx, ctxWrites, hdr, limiterVars, alive, panicSeen, health >>

(***************************************************************************)
(* Panics.                                                                 *)
(***************************************************************************)
PanicStages == {"rate_limiter", "cors", "secure", "request_id", "tracing",
                "enhance_tracing", "context", "request_logger", "auth"}

\* a middleware stage panics instead of running
Panic(r) ==
  /\ pc[r] \in PanicStages
  /\ Enter(r, pc[r])
  /\ panicAt' = [panicAt EXCEPT ![r] = pc[r]]
  /\ pc' = [pc EXCEPT ![r] = "panicked"]
  /\ UNCHANGED << nrApp, req, ctx, ctxWrites, hdr, resp, err, ending, disp, obs,
                  limiterVars, alive, panicSeen, health >>

\* a recovery that answers with the panic's own text
RecoveredErrorAsHTTP(text) ==
  HTTPError("PANIC", text, StatusInternalServerError, TRUE, NoFieldErrors, NoAction)

\* the error Recover makes of the value that was panicked with
RecoveredError(text) == RawError(text)

\* Recover catches a panic of a stage it wraps: it logs the stack and hands
\* the error to the error handler
RecoverPanic(r) ==
  /\ pc[r] = "panicked"
  /\ panicAt[r] \in RecoverScope
  /\ err' = [err EXCEPT ![r] = RecoveredError(PanicText)]
  /\ obs' = [obs EXCEPT ![r].logs = @ \cup {"panic_stack"}]
  /\ ending' = [ending EXCEPT ![r] = "recovered_panic"]
  /\ pc' = [pc EXCEPT ![r] = "returned"]
  /\ panicSeen' = TRUE
  /\ alive' = TRUE
  /\ UNCHANGED << nrApp, req, ctx, ctxWrites, hdr, resp, trail, panicAt, disp,
                  limiterVars, health >>

\* a panic of a stage outside Recover unwinds the whole chain; net/http's
\* connection goroutine recovers it, logs it and drops the connection
ServerAbort(r) ==
  /\ pc[r] = "panicked"
  /\ panicAt[r] \notin RecoverScope
  /\ obs' = [obs EXCEPT ![r].logs = @ \cup {"http_panic"}]
  /\ ending' = [ending EXCEPT ![r] = "aborted"]
  /\ pc' = [pc EXCEPT ![r] = "done"]
  /\ panicSeen' = TRUE
  /\ alive' = TRUE
  /\ UNCHANGED << nrApp, req, ctx, ctxWrites, hdr, resp, err, trail, panicAt, disp,
                  limiterVars, health >>

(***************************************************************************)
(* The chain returns: Echo passes a returned error to GlobalErrorHandler,  *)
(* and RequestLogger, if it was entered, writes its log line.              *)
(***************************************************************************)
Complete(r) ==
  /\ pc[r] = "returned"
  /\ resp' = [resp EXCEPT ![r] =
                IF err[r].kind = "nil" THEN @
                ELSE Append(@, Sent(r, GlobalErrorHandler(err[r])))]
  /\ obs' = [obs EXCEPT ![r].logs =
               @ \cup (IF Entered(r, "request_logger") THEN {"access"} ELSE {})
                 \cup (IF err[r].kind = "nil" THEN {} ELSE {"error"})]
  /\ pc' = [pc EXCEPT ![r] = "done"]
  /\ UNCHANGED << nrApp, req, ctx, ctxWrites, hdr, err, ending, trail, panicAt, disp,
                  limiterVars, alive, panicSeen, health >>

\* the response is out and the request's context is discarded
Finish(r) ==
  /\ pc[r] = "done"
  /\ pc' = [pc EXCEPT ![r] = "idle"]
  /\ req' = [req EXCEPT ![r] = NoReq]
  /\ ctx' = [ctx EXCEPT ![ContextOf(r)] = EmptyCtx]
  /\ ctxWrites' = [ctxWrites EXCEPT ![ContextOf(r)] = [f \in CtxFields |-> 0]]
  /\ hdr' = [hdr EXCEPT ![r] = NoHeaders]
  /\ resp' = [resp EXCEPT ![r] = << >>]
  /\ err' = [err EXCEPT ![r] = NoErr]
  /\ ending' = [ending EXCEPT ![r] = "none"]
  /\ trail' = [trail EXCEPT ![r] = << >>]
  /\ panicAt' = [panicAt EXCEPT ![r] = "none"]
  /\ disp' = [disp EXCEPT ![r] = NoDispatch]
  /\ obs' = [obs EXCEPT ![r] = NoObs]
  /\ local' = [local EXCEPT ![r] = 0]
  /\ UNCHANGED << nrApp, mu, count, window, alive, panicSeen, health >>

\* SpecRate does not follow an admitted request further down the chain: the
\* rest of the chain runs and the slot is free again
Downstream(r) ==
  /\ pc[r] = Forward(r, "rate_limiter")
  /\ pc' = [pc EXCEPT ![r] = "idle"]
  /\ req' = [req EXCEPT ![r] = NoReq]
  /\ trail' = [trail EXCEPT ![r] = << >>]
  /\ local' = [local EXCEPT ![r] = 0]
  /\ UNCHANGED << nrApp, ctx, ctxWrites, hdr, resp, err, ending, panicAt, disp, obs,
                  mu, count, window, alive, panicSeen, health >>

(***************************************************************************)
(* handler.CheckHealth, GET /status (internal/handler/health.go).          *)
(***************************************************************************)
CheckValue(up) == IF up THEN "healthy" ELSE "unhealthy"

\* the checks performed: the database always, redis when a client is configured
HealthChecks(dbUp, redisConfigured, redisUp) ==
  IF redisConfigured
  THEN [d \in {"database", "redis"} |->
          IF d = "database" THEN CheckValue(dbUp) ELSE CheckValue(redisUp)]
  ELSE [d \in {"database"} |-> CheckValue(dbUp)]

\* a handler whose status follows the database check alone
HealthResponseDatabaseOnly(dbUp, redisConfigured, redisUp, environment) ==
  LET checks == HealthChecks(dbUp, redisConfigured, redisUp) IN
  [status |-> IF dbUp THEN StatusOK ELSE StatusServiceUnavailable,
   body |-> [status |-> CheckValue(dbUp), environment |-> environment,
             checks |-> checks],
   saw |-> [dbUp |-> dbUp, redisUp |-> redisUp]]

HealthResponse(dbUp, redisConfigured, redisUp, environment) ==
  LET checks == HealthChecks(dbUp, redisConfigured, redisUp)
      isHealthy == \A d \in DOMAIN checks : checks[d] = "healthy"
  IN
  [status |-> IF isHealthy THEN StatusOK ELSE StatusServiceUnavailable,
   body |-> [status |-> CheckValue(isHealthy), environment |-> environment,
             checks |-> checks],
   saw |-> [dbUp |-> dbUp, redisUp |-> redisUp]]

CheckHealth ==
  /\ LET rsp == HealthResponse(health.dbUp, health.redisConfigured, health.redisUp,
                               health.environment)
     IN
     health' = [health EXCEPT
                  !.checked = TRUE,
                  !.response = rsp,
                  !.events = IF nrApp
                             THEN @ \cup { d \in DOMAIN rsp.body.checks :
                                             rsp.body.checks[d] = "unhealthy" }
                             ELSE @]
  /\ UNCHANGED << nrApp, chainVars, limiterVars, alive, panicSeen >>

\* a dependency becomes reachable or unreachable
DependencyChange ==
  /\ \/ health' = [health EXCEPT !.dbUp = ~@]
     \/ health' = [health EXCEPT !.redisUp = ~@]
  /\ UNCHANGED << nrApp, chainVars, limiterVars, alive, panicSeen >>

(***************************************************************************)
(* Specifications.                                                         *)
(***************************************************************************)
Step(r) ==
  \/ Arrive(r, Requests(ChainClients))
  \/ RateAcquire(r)
  \/ RateCommit(r)
  \/ CORS(r)
  \/ Secure(r)
  \/ RequestID(r)
  \/ NewRelic(r)
  \/ EnhanceTracing(r)
  \/ EnhanceContext(r)
  \/ RequestLogger(r)
  \/ Recover(r)
  \/ RequireAuth(r)
  \/ HandleRequest(r, Payloads, HandlerOutcomes)
  \/ Panic(r)
  \/ RecoverPanic(r)
  \/ ServerAbort(r)
  \/ Complete(r)
  \/ Finish(r)

Next == (\E r \in ChainSlots : Step(r)) \/ Tick

Spec == Init /\ [][Next]_vars

RateStep(r) ==
  \/ Arrive(r, RateRequests(Clients))
  \/ RateAcquire(r)
  \/ RateCommit(r)
  \/ Downstream(r)
  \/ Complete(r)
  \/ Finish(r)

NextRate == (\E r \in Slots : RateStep(r)) \/ Tick

InitRate == Init /\ nrApp

SpecRate == InitRate /\ [][NextRate]_vars

\* the payload and the outcomes of business logic that SpecCtx follows
CtxOutcomes == { [kind |-> "ok"], NewNotFoundError("item not found", FALSE) }

CtxStep(r) ==
  \/ Arrive(r, CtxRequests)
  \/ RateAcquire(r)
  \/ RateCommit(r)
  \/ CORS(r)
  \/ Secure(r)
  \/ RequestID(r)
  \/ NewRelic(r)
  \/ EnhanceTracing(r)
  \/ EnhanceContext(r)
  \/ RequestLogger(r)
  \/ Recover(r)
  \/ RequireAuth(r)
  \/ HandleRequest(r, {ValidPayload}, CtxOutcomes)
  \/ Complete(r)
  \/ Finish(r)

NextCtx == (\E r \in CtxSlots : CtxStep(r)) \/ Tick

SpecCtx == Init /\ [][NextCtx]_vars

InitHealth ==
  /\ nrApp \in BOOLEAN
  /\ SlotsIdle
  /\ mu = 0
  /\ count = [c \in Clients |-> 0]
  /\ window = [c \in Clients |-> NoWindow]
  /\ alive = TRUE
  /\ panicSeen = FALSE
  /\ health \in HealthStates

NextHealth == CheckHealth \/ DependencyChange

SpecHealth == InitHealth /\ [][NextHealth]_vars

(***************************************************************************)
(* Properties.                                                             *)
(***************************************************************************)
Done(r) == pc[r] = "done"

\* the endings the middleware chain and typed dispatch give a request
ChainEndings == {"rate_limited", "preflight", "unauthorized", "recovered_panic",
                 "bind_error", "handler_error", "handler_success"}

\* the X-Request-ID a response must carry for a request that sent `inbound`
CarriesRequestID(rsp, inbound) ==
  /\ rsp.headers.requestID # ""
  /\ inbound # "" => rsp.headers.requestID = inbound
  /\ inbound = "" => rsp.headers.requestID = "generated-uuid"

\* C1 as stated: whichever stage ends a request (rate-limit rejection, CORS
\* preflight, 401, recovered panic, handler error or success), exactly one
\* response is produced and it carries a non-empty X-Request-ID, the inbound
\* value if the client sent one and a generated one otherwise.
C1_EveryResponseCarriesRequestID ==
  \A r \in Slots :
    (Done(r) /\ ending[r] \in ChainEndings) =>
      /\ Len(resp[r]) = 1
      /\ CarriesRequestID(resp[r][1], req[r].inboundID)

\* C1 amended: every request that no panic outside Recover aborts gets exactly
\* one response; the response carries the X-Request-ID (inbound or generated)
\* when the request reached the RequestID middleware, that is for every ending
\* but the rate-limit rejection and the CORS preflight, which end the request
\* before that middleware and whose responses carry no X-Request-ID.
C1_OneResponseRequestIDOnceReached ==
  \A r \in Slots :
    /\ Len(resp[r]) <= 1
    /\ (Done(r) /\ ending[r] \in ChainEndings) =>
         /\ Len(resp[r]) = 1
         /\ ending[r] \notin {"rate_limited", "preflight"} =>
              CarriesRequestID(resp[r][1], req[r].inboundID)
         /\ ending[r] \in {"rate_limited", "preflight"} =>
              resp[r][1].headers.requestID = ""

\* C1 witness: a handler error on a request that sent no X-Request-ID is
\* answered once, with a generated identifier
C1_Witness ==
  \E r \in Slots :
    /\ Done(r)
    /\ ending[r] = "handler_error"
    /\ req[r].inboundID = ""
    /\ Len(resp[r]) = 1
    /\ resp[r][1].headers.requestID = "generated-uuid"

\* C2: on a route that requires authentication a request whose credential is
\* missing or fails verification gets 401 with a JSON HTTPError body and its
\* handler never runs; one whose credential verifies reaches the handler only
\* with userID, userRole and permissions set in its context; on a route that
\* does not require authentication the handler runs whatever the credential.
C2_AuthGatesHandler ==
  \A r \in Slots :
    /\ (req[r].route.requiresAuth /\ (pc[r] = "handler" \/ disp[r].entered)) =>
         /\ req[r].credential = "valid"
         /\ ctx[r].userID # ""
         /\ ctx[r].userRole # ""
         /\ ctx[r].permissions # ""
    /\ (Done(r) /\ req[r].route.requiresAuth /\ req[r].credential # "valid"
          /\ Entered(r, "auth") /\ panicAt[r] = "none") =>
         /\ ending[r] = "unauthorized"
         /\ ~disp[r].entered
         /\ Len(resp[r]) = 1
         /\ resp[r][1].status = 401
         /\ resp[r][1].body.kind = "error"
         /\ resp[r][1].body.code = "UNAUTHORIZED"
    /\ (Done(r) /\ ~req[r].route.requiresAuth /\ Entered(r, "recover")) =>
         /\ disp[r].entered
         /\ ~Entered(r, "auth")
         /\ ending[r] # "unauthorized"

\* C2 witness: an invalid credential on a protected route was answered 401
C2_Witness ==
  \E r \in Slots :
    /\ Done(r)
    /\ req[r].route.requiresAuth
    /\ req[r].credential = "invalid"
    /\ ending[r] = "unauthorized"
    /\ ~disp[r].entered

PanicAnswered(r) ==
  /\ Len(resp[r]) = 1
  /\ resp[r][1].status = 500
  /\ resp[r][1].body.kind = "error"
  /\ resp[r][1].body.code = "INTERNAL_SERVER_ERROR"
  /\ resp[r][1].body.message = "Internal Server Error"
  /\ "panic_stack" \in obs[r].logs

TaxonomyCodes == {"BAD_REQUEST", "VALIDATION_ERROR", "UNAUTHORIZED", "FORBIDDEN",
                  "NOT_FOUND", "RATE_LIMITED", "INTERNAL_SERVER_ERROR"}

\* C5: every error response body is a serialized HTTPError; an error that is
\* no HTTPError (a storage error or any other error) is translated before it
\* is serialized, and a 500 carries the fixed generic message, never the text
\* of its cause.
C5_ErrorBodiesAreHTTPErrors ==
  \A r \in Slots :
    \A i \in DOMAIN resp[r] :
      resp[r][i].status >= 400 =>
        /\ resp[r][i].body.kind = "error"
        /\ err[r].kind # "echo" => resp[r][i].body.code \in TaxonomyCodes
        /\ resp[r][i].status = 500 =>
             /\ resp[r][i].body.code = "INTERNAL_SERVER_ERROR"
             /\ resp[r][i].body.message = "Internal Server Error"
        /\ err[r].kind \in {"pg", "norows", "raw"} =>
             /\ resp[r][i].body.message # err[r].Message
             /\ resp[r][i].body.message \notin RawCauses
             /\ resp[r][i].status \in {400, 404, 500}

\* C5 witness: business logic returned a raw error and the client got the
\* generic 500
C5_Witness ==
  \E r \in Slots :
    /\ Done(r)
    /\ ending[r] = "handler_error"
    /\ err[r].kind = "raw"
    /\ resp[r][1].status = 500
    /\ resp[r][1].body.message = "Internal Server Error"

IsError(o) == o.kind \in {"http", "pg", "norows", "raw"}

\* C6: HandleError is the identity on HTTPErrors (code, message, status, field
\* errors, action and override unchanged), so translating twice equals
\* translating once for every error, and an HTTPError returned by business
\* logic reaches the client with its own status and code.
C6_TranslateIsIdentityOnHTTPErrors ==
  \A r \in Slots :
    IsError(disp[r].outcome) =>
      LET e == disp[r].outcome IN
      /\ HandleError(HandleError(e)) = HandleError(e)
      /\ IsHTTPError(HandleError(e))
      /\ IsHTTPError(e) =>
           /\ HandleError(e) = e
           /\ Done(r) =>
                /\ Len(resp[r]) = 1
                /\ resp[r][1].status = e.Status
                /\ resp[r][1].body.code = e.Code
                /\ resp[r][1].body.message = e.Message
                /\ resp[r][1].body.errors = e.Errors
                /\ resp[r][1].body.action = e.Action

\* C6 witness: an HTTPError with override, a field error and an action reached
\* the client as it was returned
C6_Witness ==
  \E r \in Slots :
    /\ Done(r)
    /\ IsError(disp[r].outcome)
    /\ IsHTTPError(disp[r].outcome)
    /\ disp[r].outcome.Override
    /\ resp[r][1].status = 400
    /\ resp[r][1].body.action = "redirect"
    /\ Len(resp[r][1].body.errors) = 1

\* the StorageErrorCode documented for a native code
DocumentedCode(code) ==
  CASE code = "23502" -> "not_null_violation"
    [] code = "23503" -> "foreign_key_violation"
    [] code = "23505" -> "unique_violation"
    [] code = "23514" -> "check_violation"
    [] OTHER -> "other"

BindFailed(r) == disp[r].entered /\ ending[r] = "bind_error"

\* the field errors of the failing rules of p, one per rule, in declaration order
OnePerFailingRule(errors, p) ==
  /\ Len(errors) = Cardinality(p.failing)
  /\ \A k \in 1 .. Len(errors) :
       \E i \in p.failing :
         /\ Cardinality({ j \in p.failing : j < i }) = k - 1
         /\ errors[k].field = RuleField(i)
         /\ errors[k].error = TagMessage(RuleTag(i))

BindAndValidateResult(r, validationCode) ==
  LET p == disp[r].payload IN
  /\ err[r].kind = "http"
  /\ err[r].Status = 400
  /\ ~p.bindOK =>
       /\ err[r].Code = "BAD_REQUEST"
       /\ err[r].Errors = << >>
       /\ ~disp[r].validated
  /\ p.bindOK =>
       /\ disp[r].validated
       /\ err[r].Code = validationCode
       /\ p.failing # {} => OnePerFailingRule(err[r].Errors, p)
       /\ p.failing = {} => err[r].Errors = p.custom
  /\ ~disp[r].handlerRan
  /\ Done(r) =>
       /\ Len(resp[r]) = 1
       /\ resp[r][1].status = 400
       /\ resp[r][1].body.code = err[r].Code
       /\ resp[r][1].body.errors = err[r].Errors

HealthStatusFollowsChecks(okValue, failValue) ==
  LET rsp == health.response
      checks == rsp.body.checks
  IN
  health.checked =>
    /\ DOMAIN checks = IF health.redisConfigured THEN {"database", "redis"}
                       ELSE {"database"}
    /\ checks["database"] = IF rsp.saw.dbUp THEN okValue ELSE failValue
    /\ health.redisConfigured =>
         checks["redis"] = IF rsp.saw.redisUp THEN okValue ELSE failValue
    /\ rsp.status \in {200, 503}
    /\ rsp.status = 200 <=>
         (rsp.saw.dbUp /\ (health.redisConfigured => rsp.saw.redisUp))
    /\ (rsp.saw.dbUp /\ health.redisConfigured /\ ~rsp.saw.redisUp) =>
         /\ rsp.status = 503
         /\ checks["database"] = okValue
         /\ checks["redis"] = failValue

\* C9 as stated: GET /status reports each check on its own, answers 200 only
\* when every performed check succeeds and 503 when one fails; with the
\* database reachable and redis not it answers 503 with checks.database = "ok"
\* and checks.redis = "fail".
C9_StatusChecksOkFail == HealthStatusFollowsChecks("ok", "fail")

\* C9 amended: as stated, but a check is reported as "healthy" or
\* "unhealthy": with the database reachable and redis not, GET /status answers
\* 503 with checks.database healthy and checks.redis unhealthy.
C9_StatusChecksHealthyUnhealthy == HealthStatusFollowsChecks("healthy", "unhealthy")

\* C9 witness: the database answered, redis did not, and the response was 503
C9_Witness ==
  /\ health.checked
  /\ health.redisConfigured
  /\ health.response.saw.dbUp
  /\ ~health.response.saw.redisUp
  /\ health.response.status = 503
  /\ health.response.body.status = "unhealthy"

RecordsOf(r, phase) ==
  Cardinality({ k \in DOMAIN obs[r].records : obs[r].records[k].phase = phase })

Dispatched(r) ==
  /\ disp[r].entered
  /\ ending[r] \in {"bind_error", "handler_error", "handler_success"}

OneRecordPerPhase(r) ==
  /\ RecordsOf(r, "validation") = 1
  /\ RecordsOf(r, "handler") = IF disp[r].handlerRan THEN 1 ELSE 0
  /\ Len(obs[r].records) = IF disp[r].handlerRan THEN 2 ELSE 1
  /\ \A k \in DOMAIN obs[r].records :
       /\ obs[r].records[k].operationName = req[r].route.path
       /\ obs[r].records[k].status =
            IF obs[r].records[k].phase = "validation"
            THEN (IF ending[r] = "bind_error" THEN "failed" ELSE "success")
            ELSE (IF ending[r] = "handler_error" THEN "error" ELSE "success")

\* C10 as stated: on every branch of handleRequest (bind or validation
\* failure, handler error, handler success) the record of each phase that ran
\* is emitted exactly once, none twice and none skipped.
C10_RecordedOnEveryBranch ==
  \A r \in Slots : Dispatched(r) => OneRecordPerPhase(r)

\* C10 amended: the records go to the request's New Relic transaction; when an
\* application is configured, every branch records each phase that ran exactly
\* once (validation alone on a bind or validation failure, validation and
\* handler on a handler error or success); when none is configured there is no
\* transaction and no branch records anything.
C10_RecordedOncePerPhaseOnTransaction ==
  \A r \in Slots :
    Dispatched(r) =>
      /\ nrApp => OneRecordPerPhase(r)
      /\ ~nrApp => obs[r].records = << >>

\* C10 witness: a handler error with an application configured left one
\* validation record and one handler record
C10_Witness ==
  \E r \in Slots :
    /\ nrApp
    /\ Done(r)
    /\ ending[r] = "handler_error"
    /\ Len(obs[r].records) = 2
    /\ obs[r].records[2].phase = "handler"
    /\ obs[r].records[2].status = "error"

(***************************************************************************)
(* C11: the order of the stages.                                           *)
(***************************************************************************)
Rank(order, stage) == CHOOSE k \in DOMAIN order : order[k] = stage

\* the stages a request entered follow `order`, and none of the global
\* middleware ahead of an entered stage was skipped
RunsInOrder(order, r) ==
  /\ \A i, j \in DOMAIN trail[r] :
       i < j => Rank(order, trail[r][i]) < Rank(order, trail[r][j])
  /\ \A i \in DOMAIN trail[r] :
       \A k \in 1 .. (Rank(order, trail[r][i]) - 1) :
         order[k] # "auth" => Entered(r, order[k])

\* a 401 of the authentication stage finds the request ID and the logger set
UnauthorizedHasContext(r) ==
  ending[r] = "unauthorized" =>
    /\ ctx[r].requestID # ""
    /\ ctx[r].logger.set
    /\ ctx[r].logger.request_id = ctx[r].requestID
    /\ ~disp[r].entered

\* a request the rate limiter or a CORS preflight ended built no context and
\* went no further
CheapRejection(r) ==
  ending[r] \in {"rate_limited", "preflight"} =>
    /\ ctx[r] = EmptyCtx
    /\ \A f \in CtxFields : ctxWrites[r][f] = 0
    /\ ~disp[r].entered
    /\ trail[r] = IF ending[r] = "rate_limited" THEN << "rate_limiter" >>
                  ELSE << "rate_limiter", "cors" >>

StatedOrder ==
  << "rate_limiter", "cors", "secure", "request_id", "tracing", "enhance_tracing",
     "context", "auth", "request_logger", "recover", "handler" >>

AppliedOrder ==
  << "rate_limiter", "cors", "secure", "request_id", "tracing", "enhance_tracing",
     "context", "request_logger", "recover", "auth", "handler" >>

\* C11 as stated: the stages run in the order rate limiter, CORS, security
\* headers, request ID, tracing, trace enrichment, context enrichment,
\* authentication, request logger, panic recovery; a 401 finds the request ID
\* and the logger set; a rate-limited or preflight request has no context
\* field set and reaches no later stage.
C11_AuthBeforeRequestLogger ==
  \A r \in Slots :
    /\ RunsInOrder(StatedOrder, r)
    /\ UnauthorizedHasContext(r)
    /\ CheapRejection(r)

\* C11 amended: the stages run in the order rate limiter, CORS, security
\* headers, request ID, tracing, trace enrichment, context enrichment, request
\* logger, panic recovery, and authentication after them on the routes that
\* require it, then the handler; a 401 finds the request ID and the logger
\* set and the handler not run; a rate-limited or preflight request has no
\* context field set and reaches no later stage.
C11_AuthAfterGlobalMiddleware ==
  \A r \in Slots :
    /\ RunsInOrder(AppliedOrder, r)
    /\ UnauthorizedHasContext(r)
    /\ CheapRejection(r)

\* C11 witness: a request was answered 401 by the authentication stage after
\* the request logger and the panic recovery had been entered
C11_Witness ==
  \E r \in Slots :
    /\ Done(r)
    /\ ending[r] = "unauthorized"
    /\ Entered(r, "request_logger")
    /\ Entered(r, "recover")
    /\ trail[r][Len(trail[r])] = "auth"
    /\ resp[r][1].status = StatusUnauthorized

(***************************************************************************)
(* C12: the RequestContext of a request.                                   *)
(***************************************************************************)
IsSet(c, f) == IF f = "logger" THEN c.logger.set ELSE c[f] # ""

AuthFields == {"userID", "userRole", "permissions"}

\* the X-Request-ID of the request in slot r
OwnRequestID(r) == IF req[r].inboundID = "" THEN NewUUID ELSE req[r].inboundID

\* each field was set at most once, and what is set came from the request's
\* own middleware
SetOnceByOwnRequest(r) ==
  /\ \A f \in CtxFields :
       /\ ctxWrites[r][f] <= 1
       /\ IsSet(ctx[r], f) <=> ctxWrites[r][f] = 1
  /\ pc[r] = "idle" => ctx[r] = EmptyCtx
  /\ IsSet(ctx[r], "requestID") =>
       /\ Entered(r, "request_id")
       /\ ctx[r].requestID = OwnRequestID(r)
  /\ IsSet(ctx[r], "traceID") => Entered(r, "tracing")
  /\ IsSet(ctx[r], "logger") =>
       /\ Entered(r, "context")
       /\ ctx[r].logger.request_id = OwnRequestID(r)
  /\ \A f \in AuthFields :
       IsSet(ctx[r], f) =>
         /\ Entered(r, "auth")
         /\ req[r].credential = "valid"

\* a step leaves a field that is set as it is, until the request is done and
\* its context discarded, and a context changes only in a step of its request
KeptAndOwn(r) ==
  /\ \A f \in CtxFields :
       IsSet(ctx[r], f) /\ pc[r] # "done" => ctx'[r][f] = ctx[r][f]
  /\ ctx'[r] # ctx[r] => pc'[r] # pc[r]

\* C12: across the chain and the handler of a request each of requestID,
\* userID, userRole, permissions, traceID, spanID and logger is set at most
\* once and not overwritten afterwards; the auth fields are set only if
\* authentication succeeded; and no request reads or writes the
\* RequestContext of another, concurrent request.
C12_WriteOncePerRequest ==
  /\ [](\A r \in Slots : SetOnceByOwnRequest(r))
  /\ [][\A r \in Slots : KeptAndOwn(r)]_vars

\* C12 witness: two requests are in flight at once, one authenticated with
\* every field of its context set, the other with a different request ID and
\* no auth field set
C12_Witness ==
  \E r, o \in Slots :
    /\ r # o
    /\ nrApp
    /\ pc[r] = "returned" /\ ending[r] = "handler_success"
    /\ \A f \in CtxFields : IsSet(ctx[r], f) /\ ctxWrites[r][f] = 1
    /\ pc[o] = "handler"
    /\ IsSet(ctx[o], "requestID") /\ IsSet(ctx[o], "logger")
    /\ ctx[o].requestID # ctx[r].requestID
    /\ \A f \in AuthFields : ~IsSet(ctx[o], f)

====
